---- MODULE Spec2Model ----
(***************************************************************************)
(* META_PE (laikaboss/modules/meta_pe.py): one run of META_PE._run over a  *)
(* scan object, with the helpers parseRSDS and parseRich.                  *)
(*                                                                         *)
(* _run is a straight-line method made of guarded steps; each step is one  *)
(* action.  Every step that calls into pefile, hashlib or the scan object  *)
(* may end normally or raise; the exception raised is an input of the      *)
(* action, and what the step's handlers do with it is taken from the       *)
(* try/except structure of the source.                                     *)
(***************************************************************************)
EXTENDS Integers, Sequences, FiniteSets, TLC

(* ------------------------------------------------------------------ *)
(* Bounds of the model                                                  *)
(* ------------------------------------------------------------------ *)
MaxSections == 2
MaxExports  == 2
MaxModules  == 2
MaxSymbols  == 2
MaxPairs    == 2
MaxLeaves   == 1

(* ------------------------------------------------------------------ *)
(* Python values whose truth value the code tests (imp.get(...))        *)
(* ------------------------------------------------------------------ *)
None     == [ty |-> "none", i |-> 0, s |-> ""]
PyInt(n) == [ty |-> "int",  i |-> n, s |-> ""]
PyStr(x) == [ty |-> "str",  i |-> 0, s |-> x]
PyDict   == [ty |-> "dict", i |-> 0, s |-> ""]

\* bool(v) of Python: None, 0 and '' are false, a non-empty dict is true
Truthy(v) ==
  CASE v.ty = "none" -> FALSE
    [] v.ty = "int"  -> v.i # 0
    [] v.ty = "str"  -> v.s # ""
    [] OTHER         -> TRUE

(* ------------------------------------------------------------------ *)
(* dict helpers: a dict is a function on its set of keys                *)
(* ------------------------------------------------------------------ *)
EmptyDict == [k \in {} |-> 0]

DictSet(d, k, v) == [x \in (DOMAIN d) \cup {k} |-> IF x = k THEN v ELSE d[x]]

RECURSIVE SeqToSet(_)
SeqToSet(q) == IF q = <<>> THEN {} ELSE {Head(q)} \cup SeqToSet(Tail(q))

\* all sequences over S of length 0..n
SeqsUpTo(S, n) == UNION {[1..k -> S] : k \in 0..n}

(* ------------------------------------------------------------------ *)
(* Bytes and hexadecimal formatting                                     *)
(* ------------------------------------------------------------------ *)
HexLower == <<"0","1","2","3","4","5","6","7","8","9","a","b","c","d","e","f">>
HexUpper == <<"0","1","2","3","4","5","6","7","8","9","A","B","C","D","E","F">>

\* binascii.hexlify: two lower-case digits per byte
RECURSIVE hexlify(_)
hexlify(bytes) ==
  IF bytes = <<>> THEN <<>>
  ELSE <<HexLower[(Head(bytes) \div 16) + 1], HexLower[(Head(bytes) % 16) + 1]>>
       \o hexlify(Tail(bytes))

\* the digits of n in base 16, most significant first, at least w of them
RECURSIVE HexDigitsOf(_, _)
HexDigitsOf(n, w) ==
  IF n < 16 /\ w <= 1 THEN <<HexUpper[n + 1]>>
  ELSE HexDigitsOf(n \div 16, w - 1) \o <<HexUpper[(n % 16) + 1]>>

\* '0x%08X' % n
FormatVirtualAddress(n) == <<"0", "x">> \o HexDigitsOf(n, 8)

\* struct.unpack('<L', b)[0]
UnpackLE32(b) == b[1] + 256 * b[2] + 65536 * b[3] + 16777216 * b[4]

\* str.strip('\0'): NUL bytes are removed from both ends
RECURSIVE StripLeft(_)
StripLeft(b) == IF b # <<>> /\ Head(b) = 0 THEN StripLeft(Tail(b)) ELSE b

RECURSIVE StripRight(_)
StripRight(b) ==
  IF b # <<>> /\ b[Len(b)] = 0 THEN StripRight(SubSeq(b, 1, Len(b) - 1)) ELSE b

StripNul(b) == StripRight(StripLeft(b))

(* ------------------------------------------------------------------ *)
(* Image magic (module constant and the local of _run)                  *)
(* ------------------------------------------------------------------ *)
IMAGE_MAGIC_LOOKUP == (267 :> "32_BIT") @@ (523 :> "64_BIT") @@ (263 :> "ROM_IMAGE")

\* the local imageMagic of _run: assigned '' once and never again
imageMagic == PyStr("")

\* IMAGE_MAGIC_LOOKUP.get(key, 'Unknown')
ImageMagicGet(key) ==
  IF key.ty = "int" /\ key.i \in DOMAIN IMAGE_MAGIC_LOOKUP
  THEN IMAGE_MAGIC_LOOKUP[key.i]
  ELSE "Unknown"

(* ------------------------------------------------------------------ *)
(* Section walk                                                         *)
(* ------------------------------------------------------------------ *)
\* the key 'Total' of the sections dict, as bytes
TotalKey == <<84, 111, 116, 97, 108>>

\* pe.get_data(ptr, size): the bytes the library hands back for that range
get_data(ptr, size) == [ptr |-> ptr, size |-> size]

\* secInfo of one entry of dump_dict['PE Sections']
SecInfo(section) ==
  [kind           |-> "secInfo",
   VirtualAddress |-> FormatVirtualAddress(section.VirtualAddress),
   RawSize        |-> section.SizeOfRawData,
   MD5            |-> section.MD5,
   total          |-> 0]

\* the value stored under 'Total'
TotalValue(n) ==
  [kind |-> "count", VirtualAddress |-> <<>>, RawSize |-> 0, MD5 |-> "", total |-> n]

\* the test that lets a section become a child object
IsChildAlways(secInfo, hash) == TRUE

IsChild(secInfo, hash) == secInfo.MD5 # hash

\* ModuleObject(buffer=secData, externalVars=ExternalVars(filename=secName))
ModuleObject(secData, secName) == [buffer |-> secData, filename |-> secName]

(* ------------------------------------------------------------------ *)
(* Exports and imports                                                  *)
(* ------------------------------------------------------------------ *)
\* the list built from pe.DIRECTORY_ENTRY_EXPORT.symbols, named symbols only
ExportsNamedOnly(symbols) ==
  SelectSeq([j \in 1..Len(symbols) |-> symbols[j].name], LAMBDA n : n # None)

\* the list built from pe.DIRECTORY_ENTRY_EXPORT.symbols: exp.name of each
ExportsOf(symbols) == [j \in 1..Len(symbols) |-> symbols[j].name]

\* what one imported-symbol dict appends, ordinal branch left out
ImportElemsNameOnly(imp) == IF Truthy(imp.Name) THEN <<imp.Name>> ELSE <<>>

\* what one imported-symbol dict appends to imports[dll]
ImportElems(imp) ==
  (IF Truthy(imp.Ordinal) THEN <<imp.Ordinal>> ELSE <<>>)
  \o (IF Truthy(imp.Name) THEN <<imp.Name>> ELSE <<>>)

\* the body of the inner loop for one dict of an 'Imported symbols' list
AddImport(imports, imp) ==
  IF Truthy(imp.DLL)
  THEN LET d == IF imp.DLL \in DOMAIN imports
                THEN imports
                ELSE DictSet(imports, imp.DLL, <<>>)
       IN  DictSet(d, imp.DLL, d[imp.DLL] \o ImportElems(imp))
  ELSE imports

RECURSIVE AddImports(_, _)
AddImports(imports, imp_symbol) ==
  IF imp_symbol = <<>> THEN imports
  ELSE AddImports(AddImport(imports, Head(imp_symbol)), Tail(imp_symbol))

\* the two nested loops over dump_dict['Imported symbols']
RECURSIVE BuildImports(_, _)
BuildImports(imports, dump) ==
  IF dump = <<>> THEN imports
  ELSE BuildImports(AddImports(imports, Head(dump)), Tail(dump))

(* ------------------------------------------------------------------ *)
(* parseRSDS                                                            *)
(* ------------------------------------------------------------------ *)
RSDS   == <<82, 83, 68, 83>>
DotPdb == <<46, 112, 100, 98>>
MinGap == 24
MaxGap == 1024
Newline == 10

Min(a, b) == IF a <= b THEN a ELSE b
MaxOf(S) == CHOOSE m \in S : \A x \in S : x <= m

HasAt(buf, i, pat) ==
  /\ i >= 1
  /\ i + Len(pat) - 1 <= Len(buf)
  /\ SubSeq(buf, i, i + Len(pat) - 1) = pat

\* how many bytes from position i on the pattern's '.' accepts: '.' is any
\* byte but a newline
RECURSIVE DotRun(_, _)
DotRun(buf, i) ==
  IF i > Len(buf) \/ buf[i] = Newline THEN 0 ELSE 1 + DotRun(buf, i + 1)

\* the lengths n of '.{24,1024}' for which a match starting at i exists
GapsAt(buf, i) ==
  IF HasAt(buf, i, RSDS)
  THEN {n \in MinGap .. Min(MaxGap, DotRun(buf, i + 4)) : HasAt(buf, i + 4 + n, DotPdb)}
  ELSE {}

\* re.findall: non-overlapping matches, left to right, each one greedy
RECURSIVE findall(_, _)
findall(buf, i) ==
  IF i > Len(buf) THEN <<>>
  ELSE IF GapsAt(buf, i) # {}
       THEN LET e == i + 4 + MaxOf(GapsAt(buf, i)) + 3
            IN  <<SubSeq(buf, i, e)>> \o findall(buf, e + 1)
       ELSE findall(buf, i + 1)

\* the fields decoded from one match
RSDSFields(match) ==
  [guid |-> hexlify(SubSeq(match, 5, 8)) \o <<"-">> \o
            hexlify(SubSeq(match, 9, 10)) \o <<"-">> \o
            hexlify(SubSeq(match, 11, 12)) \o <<"-">> \o
            hexlify(SubSeq(match, 13, 20)),
   age  |-> UnpackLE32(SubSeq(match, 21, 24)),
   pdb  |-> SubSeq(match, 25, Len(match))]

parseRSDS(buf) ==
  LET x == findall(buf, 1)
  IN  IF x # <<>> /\ x[Len(x)] # <<>> THEN RSDSFields(x[Len(x)]) ELSE EmptyDict

(* ------------------------------------------------------------------ *)
(* parseRich                                                            *)
(* ------------------------------------------------------------------ *)
RichTriple(values, x) ==
  [Id      |-> values[x] \div 65536,
   Version |-> values[x] % 65536,
   Count   |-> values[x + 1]]

\* the triples with the first pair of values passed over
RichDataSkipFirst(values) ==
  [j \in 1..((Len(values) \div 2) - 1) |-> RichTriple(values, 2 * j + 1)]

\* the loop over range(0, len(values), 2)
RichData(values) ==
  [j \in 1..(Len(values) \div 2) |-> RichTriple(values, 2 * j - 1)]

parseRich(rich) ==
  IF rich.present
  THEN [RichHeaderValues |-> RichData(rich.values), Checksum |-> rich.checksum]
  ELSE EmptyDict

(* ------------------------------------------------------------------ *)
(* Exceptions and the handlers of _run                                  *)
(* ------------------------------------------------------------------ *)
Cancellations == {"QuitScanException", "GlobalScanTimeoutError", "GlobalModuleTimeoutError"}
OrdinaryErrors == {"Exception", "KeyError", "AttributeError"}

\* what a call into pefile, hashlib or the scan object may raise
Raisable == Cancellations \cup {"PEFormatError", "Exception"}
Outcomes == {"OK"} \cup Raisable

\* except (QuitScanException, GlobalScanTimeoutError, GlobalModuleTimeoutError):
\*     raise
\* except: logging.debug('No export entries')
ExportsCatches(e) == e \notin Cancellations

\* except: logging.debug('Unable to identify imphash')
ImphashCatches(e) == TRUE

\* same shape as the handlers of the exports block
ResourcesCatches(e) == e \notin Cancellations

\* an outer handler that lets PEFormatError through
OuterCatchesNothing(e) == FALSE

\* except pefile.PEFormatError: logging.debug("Invalid PE format")
OuterCatches(e) == e = "PEFormatError"

(* ------------------------------------------------------------------ *)
(* Inputs of one run                                                    *)
(* ------------------------------------------------------------------ *)
\* raw section names as found in the table: 'a\0', 'b', 'Total\0\0\0'
SectionNames == {<<97, 0>>, <<98>>, TotalKey \o <<0, 0, 0>>}
Hashes       == {"h1", "h2"}

\* section tables: the i-th section is laid out at 4096 * i
SectionTables ==
  {[i \in 1..Len(t) |->
       [Name |-> t[i][1], MD5 |-> t[i][2], VirtualAddress |-> 4096 * i,
        PointerToRawData |-> 512 * i, SizeOfRawData |-> 512]]
     : t \in SeqsUpTo(SectionNames \X Hashes, MaxSections)}

\* export symbols: a named symbol or an ordinal-only one (name None)
ExportSymbols == {[name |-> n] : n \in {PyStr("DllMain"), PyStr("f"), None}}
ExportDirs ==
  {[present |-> FALSE, symbols |-> <<>>]}
  \cup {[present |-> TRUE, symbols |-> q] : q \in SeqsUpTo(ExportSymbols, MaxExports)}

\* dicts of one list of dump_dict['Imported symbols']: the descriptor's own
\* dump (no 'DLL' key; its 'Name' is a dict), then one dict per symbol, by
\* ordinal or by name.  pefile lists a symbol only if its ordinal or its name
\* is truthy, and a module only if its dll name is.
StructDump == [DLL |-> None, Ordinal |-> None, Name |-> PyDict]
DllNames   == {PyStr("KERNEL32.DLL"), PyStr("WS2_32.dll")}
SymbolRefs == {[Ordinal |-> PyInt(7), Name |-> None],
               [Ordinal |-> None, Name |-> PyStr("CreateFileA")]}
ImportLists ==
  {<<StructDump>> \o [j \in 1..Len(q) |->
                        [DLL |-> d, Ordinal |-> q[j].Ordinal, Name |-> q[j].Name]]
     : d \in DllNames, q \in SeqsUpTo(SymbolRefs, MaxSymbols)}
ImportDumps ==
  {[present |-> FALSE, lists |-> <<>>]}
  \cup {[present |-> TRUE, lists |-> q] : q \in SeqsUpTo(ImportLists, MaxModules)}

Magics == {267, 523, 263, 0}

\* pe.RICH_HEADER: None, or values (an even number of 32-bit words) + checksum
RichWords == {65538, 16908292, 7}
RichHeaders ==
  {[present |-> FALSE, values |-> <<>>, checksum |-> 0]}
  \cup {[present |-> TRUE, values |-> q, checksum |-> c]
          : q \in UNION {[1..(2 * k) -> RichWords] : k \in 0..MaxPairs},
            c \in {0, 305419896}}

ResourceDirs ==
  {[present |-> FALSE, leaves |-> 0]}
  \cup {[present |-> TRUE, leaves |-> n] : n \in 0..MaxLeaves}

\* buffers holding RSDS records
Guids == {<<180, 188, 118, 116, 210, 159, 106, 73, 181, 108, 116, 124, 29, 65, 187, 165>>,
          <<1, 2, 3, 4, 5, 6, 7, 8, 9, 10, 11, 12, 13, 14, 15, 16>>}
Ages  == {<<5, 0, 0, 0>>, <<1, 2, 0, 0>>}
\* 'D:\zcg.pdb' and 'a.pdb'
Paths == {<<68, 58, 92, 122, 99, 103>> \o DotPdb, <<97>> \o DotPdb}
\* another whole record: 'RSDS' + sixteen 0xEE + age 9 + 'C:\old.pdb' + NUL
OtherRecord ==
  RSDS \o [j \in 1..16 |-> 238] \o <<9, 0, 0, 0>>
  \o <<67, 58, 92, 111, 108, 100>> \o DotPdb \o <<0>>
Prefixes == {<<>>,
             <<77, 90>>,
             RSDS \o <<0, 0, 0, 0, 0>>,
             RSDS \o <<Newline>>,
             OtherRecord}
Suffixes == {<<>>, <<0>>, <<0, 120, 121>> \o DotPdb}
BufferParts ==
  {[record |-> FALSE, pre |-> <<77, 90>>, guid |-> <<>>, age |-> <<>>,
    path |-> <<>>, post |-> <<>>]}
  \cup {[record |-> TRUE, pre |-> p, guid |-> g, age |-> a, path |-> f, post |-> t]
          : p \in Prefixes, g \in Guids, a \in Ages, f \in Paths, t \in Suffixes}

\* the record of a buffer, laid out as documented
RecordBytes(b) == IF b.record THEN RSDS \o b.guid \o b.age \o b.path ELSE <<>>
BufferOf(b)    == b.pre \o RecordBytes(b) \o b.post

DefaultSections == <<>>
DefaultExports  == [present |-> FALSE, symbols |-> <<>>]
DefaultImports  == [present |-> TRUE, lists |-> <<>>]
DefaultRich     == [present |-> FALSE, values |-> <<>>, checksum |-> 0]
DefaultRes      == [present |-> FALSE, leaves |-> 0]
DefaultBuffer   == [record |-> FALSE, pre |-> <<77, 90>>, guid |-> <<>>, age |-> <<>>,
                    path |-> <<>>, post |-> <<>>]

(* ------------------------------------------------------------------ *)
(* State                                                                *)
(* ------------------------------------------------------------------ *)
VARIABLES
  peSections,    \* dump_dict['PE Sections']
  objectHash,    \* scanObject.objectHash
  exportDir,     \* pe.DIRECTORY_ENTRY_EXPORT, if the attribute exists
  importDump,    \* dump_dict['Imported symbols'], if the key exists
  optMagic,      \* pe.OPTIONAL_HEADER.Magic
  richHeader,    \* pe.RICH_HEADER
  resourceDir,   \* pe.DIRECTORY_ENTRY_RESOURCE, if the attribute exists
  bufParts,      \* scanObject.buffer, by its parts
  pc,            \* the step _run is at
  secIdx,        \* index of the section the walk is at
  moduleResult,  \* the list _run returns
  sections,      \* the local dict sections
  metadata,      \* the addMetadata calls made so far, in order
  status,        \* "running", "returned" or "raised"
  exc,           \* the exception _run raised to its caller
  raised         \* every exception raised inside _run so far, with its step

inputs == <<peSections, objectHash, exportDir, importDump, optMagic, richHeader,
            resourceDir, bufParts>>
vars == <<peSections, objectHash, exportDir, importDump, optMagic, richHeader,
          resourceDir, bufParts, pc, secIdx, moduleResult, sections,
          metadata, status, exc, raised>>

InitSections ==
  /\ peSections \in SectionTables
  /\ objectHash \in Hashes
  /\ exportDir = DefaultExports /\ importDump = DefaultImports
  /\ optMagic = 267 /\ richHeader = DefaultRich /\ resourceDir = DefaultRes
  /\ bufParts = DefaultBuffer

InitExports ==
  /\ exportDir \in ExportDirs
  /\ peSections = DefaultSections /\ objectHash = "h1"
  /\ importDump = DefaultImports
  /\ optMagic = 267 /\ richHeader = DefaultRich /\ resourceDir = DefaultRes
  /\ bufParts = DefaultBuffer

InitImports ==
  /\ importDump \in ImportDumps
  /\ peSections = DefaultSections /\ objectHash = "h1"
  /\ exportDir = DefaultExports
  /\ optMagic = 267 /\ richHeader = DefaultRich /\ resourceDir = DefaultRes
  /\ bufParts = DefaultBuffer

InitHeader ==
  /\ optMagic \in Magics
  /\ resourceDir \in ResourceDirs
  /\ richHeader = DefaultRich
  /\ peSections = DefaultSections /\ objectHash = "h1"
  /\ exportDir = DefaultExports /\ importDump = DefaultImports
  /\ bufParts = DefaultBuffer

InitRich ==
  /\ richHeader \in RichHeaders
  /\ peSections = DefaultSections /\ objectHash = "h1"
  /\ exportDir = DefaultExports /\ importDump = DefaultImports
  /\ optMagic = 267 /\ resourceDir = DefaultRes
  /\ bufParts = DefaultBuffer

InitBuffer ==
  /\ bufParts \in BufferParts
  /\ peSections = DefaultSections /\ objectHash = "h1"
  /\ exportDir = DefaultExports /\ importDump = DefaultImports
  /\ optMagic = 267 /\ richHeader = DefaultRich /\ resourceDir = DefaultRes

\* the locals of _run as its first five lines leave them
Init ==
  /\ InitSections \/ InitExports \/ InitImports \/ InitHeader \/ InitRich \/ InitBuffer
  /\ pc = "Construct"
  /\ secIdx = 1
  /\ moduleResult = <<>>
  /\ sections = EmptyDict
  /\ metadata = <<>>
  /\ status = "running"
  /\ exc = ""
  /\ raised = <<>>

(* ------------------------------------------------------------------ *)
(* Steps of _run                                                        *)
(* ------------------------------------------------------------------ *)
addMetadata(key, value) == Append(metadata, [key |-> key, value |-> value])

\* addMetadata for the first k entries of a list of (key, value) pairs
addMetadataAll(kvs, k) ==
  metadata \o [j \in 1..k |-> [key |-> kvs[j][1], value |-> kvs[j][2]]]

\* an exception leaves the try block of _run: the outer handler takes
\* PEFormatError and falls through to the return, all else reaches the caller
Propagate(e) ==
  IF OuterCatches(e)
  THEN pc' = "Return" /\ UNCHANGED <<status, exc>>
  ELSE pc' = "Done" /\ status' = "raised" /\ exc' = e

\* exception e raised at a step; caught says whether the step's own handler
\* takes it, and next is where _run goes on if it does
Raise(step, e, caught, next) ==
  /\ raised' = Append(raised, [step |-> step, exc |-> e])
  /\ IF caught
     THEN pc' = next /\ UNCHANGED <<status, exc>>
     ELSE Propagate(e)

\* pe = pefile.PE(data=scanObject.buffer); dump_dict = pe.dump_dict()
Construct ==
  /\ pc = "Construct"
  /\ \E o \in Outcomes :
       IF o = "OK"
       THEN pc' = "Sections" /\ UNCHANGED <<status, exc, raised>>
       ELSE Raise("Construct", o, FALSE, "")
  /\ UNCHANGED <<inputs, secIdx, moduleResult, sections, metadata>>

\* one turn of the loop over dump_dict['PE Sections']
SectionStep ==
  /\ pc = "Sections"
  /\ secIdx <= Len(peSections)
  /\ \E o \in Outcomes :
       IF o = "OK"
       THEN LET section == peSections[secIdx]
                secName == StripNul(section.Name)
                secData == get_data(section.PointerToRawData, section.SizeOfRawData)
                secInfo == SecInfo(section)
            IN  /\ IF IsChild(secInfo, objectHash)
                   THEN moduleResult' = Append(moduleResult, ModuleObject(secData, secName))
                   ELSE UNCHANGED moduleResult
                /\ sections' = DictSet(sections, secName, secInfo)
                /\ secIdx' = secIdx + 1
                /\ UNCHANGED <<pc, status, exc, raised>>
       ELSE /\ Raise("Sections", o, FALSE, "")
            /\ UNCHANGED <<secIdx, moduleResult, sections>>
  /\ UNCHANGED <<inputs, metadata>>

\* after the loop: sections['Total'] = ...; addMetadata(..., 'Sections', sections)
SectionsDone ==
  /\ pc = "Sections"
  /\ secIdx > Len(peSections)
  /\ \E o \in Outcomes :
       IF o = "OK"
       THEN /\ sections' = DictSet(sections, TotalKey, TotalValue(Len(peSections)))
            /\ metadata' = addMetadata("Sections", sections')
            /\ pc' = "Exports"
            /\ UNCHANGED <<status, exc, raised>>
       ELSE /\ Raise("Sections", o, FALSE, "")
            /\ UNCHANGED <<sections, metadata>>
  /\ UNCHANGED <<inputs, secIdx, moduleResult>>

\* the try block around pe.DIRECTORY_ENTRY_EXPORT.symbols
ExportsStep ==
  /\ pc = "Exports"
  /\ IF ~exportDir.present
     THEN /\ Raise("Exports", "AttributeError", ExportsCatches("AttributeError"), "Imphash")
          /\ UNCHANGED metadata
     ELSE \E o \in Outcomes :
            IF o = "OK"
            THEN /\ metadata' = addMetadata("Exports", ExportsOf(exportDir.symbols))
                 /\ pc' = "Imphash"
                 /\ UNCHANGED <<status, exc, raised>>
            ELSE /\ Raise("Exports", o, ExportsCatches(o), "Imphash")
                 /\ UNCHANGED metadata
  /\ UNCHANGED <<inputs, secIdx, moduleResult, sections>>

\* the try block around pe.get_imphash()
ImphashStep ==
  /\ pc = "Imphash"
  /\ \E o \in Outcomes :
       IF o = "OK"
       THEN /\ metadata' = addMetadata("Imphash", "imphash")
            /\ pc' = "Imports"
            /\ UNCHANGED <<status, exc, raised>>
       ELSE /\ Raise("Imphash", o, ImphashCatches(o), "Imports")
            /\ UNCHANGED metadata
  /\ UNCHANGED <<inputs, secIdx, moduleResult, sections>>

\* the loops over dump_dict['Imported symbols'] and the addMetadata after them
ImportsStep ==
  /\ pc = "Imports"
  /\ IF ~importDump.present
     THEN /\ Raise("Imports", "KeyError", FALSE, "")
          /\ UNCHANGED metadata
     ELSE \E o \in Outcomes :
            IF o = "OK"
            THEN /\ metadata' = addMetadata("Imports", BuildImports(EmptyDict, importDump.lists))
                 /\ pc' = "Header"
                 /\ UNCHANGED <<status, exc, raised>>
            ELSE /\ Raise("Imports", o, FALSE, "")
                 /\ UNCHANGED metadata
  /\ UNCHANGED <<inputs, secIdx, moduleResult, sections>>

\* the header fields, in the order _run adds them
HeaderFields ==
  << <<"Image Characteristics", "flags">>,
     <<"Date", "isoDate">>,
     <<"Timestamp", "TimeDateStamp">>,
     <<"Machine Type", "machineData">>,
     <<"Image Magic", ImageMagicGet(imageMagic)>>,
     <<"DLL Characteristics", "dllChars">>,
     <<"Subsystem", "subName">> >>

\* Image Characteristics .. Subsystem; a raise comes after k of them are added
HeaderStep ==
  /\ pc = "Header"
  /\ \E o \in Outcomes :
       IF o = "OK"
       THEN /\ metadata' = addMetadataAll(HeaderFields, Len(HeaderFields))
            /\ pc' = "Resources"
            /\ UNCHANGED <<status, exc, raised>>
       ELSE \E k \in 0..(Len(HeaderFields) - 1) :
              /\ metadata' = addMetadataAll(HeaderFields, k)
              /\ Raise("Header", o, FALSE, "")
  /\ UNCHANGED <<inputs, secIdx, moduleResult, sections>>

ResourceFields(n) == [j \in 1..n |-> <<"Resources", "leaf">>]

\* the try block around pe.DIRECTORY_ENTRY_RESOURCE.entries: one addMetadata
\* per leaf; a raise comes after k leaves are added
ResourcesStep ==
  /\ pc = "Resources"
  /\ IF ~resourceDir.present
     THEN /\ Raise("Resources", "AttributeError", ResourcesCatches("AttributeError"), "Sizes")
          /\ UNCHANGED metadata
     ELSE \E o \in Outcomes :
            IF o = "OK"
            THEN /\ metadata' = addMetadataAll(ResourceFields(resourceDir.leaves),
                                               resourceDir.leaves)
                 /\ pc' = "Sizes"
                 /\ UNCHANGED <<status, exc, raised>>
            ELSE \E k \in 0..resourceDir.leaves :
                   /\ metadata' = addMetadataAll(ResourceFields(resourceDir.leaves), k)
                   /\ Raise("Resources", o, ResourcesCatches(o), "Sizes")
  /\ UNCHANGED <<inputs, secIdx, moduleResult, sections>>

SizeFields ==
  << <<"Stack Reserve Size", "n">>,
     <<"Stack Commit Size", "n">>,
     <<"Heap Reserve Size", "n">>,
     <<"Heap Commit Size", "n">>,
     <<"EntryPoint", "hex">>,
     <<"ImageBase", "hex">> >>

\* Stack Reserve Size .. ImageBase
SizesStep ==
  /\ pc = "Sizes"
  /\ \E o \in Outcomes :
       IF o = "OK"
       THEN /\ metadata' = addMetadataAll(SizeFields, Len(SizeFields))
            /\ pc' = "RSDS"
            /\ UNCHANGED <<status, exc, raised>>
       ELSE \E k \in 0..(Len(SizeFields) - 1) :
              /\ metadata' = addMetadataAll(SizeFields, k)
              /\ Raise("Sizes", o, FALSE, "")
  /\ UNCHANGED <<inputs, secIdx, moduleResult, sections>>

\* addMetadata(..., 'RSDS', self.parseRSDS(scanObject))
RSDSStep ==
  /\ pc = "RSDS"
  /\ \E o \in Outcomes :
       IF o = "OK"
       THEN /\ metadata' = addMetadata("RSDS", parseRSDS(BufferOf(bufParts)))
            /\ pc' = "Rich"
            /\ UNCHANGED <<status, exc, raised>>
       ELSE /\ Raise("RSDS", o, FALSE, "")
            /\ UNCHANGED metadata
  /\ UNCHANGED <<inputs, secIdx, moduleResult, sections>>

\* addMetadata(..., 'Rich Header', self.parseRich(pe))
RichStep ==
  /\ pc = "Rich"
  /\ \E o \in Outcomes :
       IF o = "OK"
       THEN /\ metadata' = addMetadata("Rich Header", parseRich(richHeader))
            /\ pc' = "Return"
            /\ UNCHANGED <<status, exc, raised>>
       ELSE /\ Raise("Rich", o, FALSE, "")
            /\ UNCHANGED metadata
  /\ UNCHANGED <<inputs, secIdx, moduleResult, sections>>

\* return moduleResult
Return ==
  /\ pc = "Return"
  /\ pc' = "Done"
  /\ status' = "returned"
  /\ UNCHANGED <<inputs, secIdx, moduleResult, sections, metadata, exc, raised>>

Next ==
  \/ Construct
  \/ SectionStep
  \/ SectionsDone
  \/ ExportsStep
  \/ ImphashStep
  \/ ImportsStep
  \/ HeaderStep
  \/ ResourcesStep
  \/ SizesStep
  \/ RSDSStep
  \/ RichStep
  \/ Return

Spec == Init /\ [][Next]_vars

(* ------------------------------------------------------------------ *)
(* Properties                                                           *)
(* ------------------------------------------------------------------ *)
Added(key) == \E i \in DOMAIN metadata : metadata[i].key = key

\* the value of the first addMetadata call for key
ValueOf(key) ==
  metadata[CHOOSE i \in DOMAIN metadata :
             /\ metadata[i].key = key
             /\ \A j \in 1..(i - 1) : metadata[j].key # key].value

RaisedAt(step) == \E i \in DOMAIN raised : raised[i].step = step

FieldSteps == {"Sections", "Exports", "Imphash", "Imports", "Header", "Resources",
               "Sizes", "RSDS", "Rich"}

\* the metadata keys a step adds when nothing fails in it
StepKeys(step) ==
  CASE step = "Sections"  -> {"Sections"}
    [] step = "Exports"   -> {"Exports"}
    [] step = "Imphash"   -> {"Imphash"}
    [] step = "Imports"   -> {"Imports"}
    [] step = "Header"    -> {HeaderFields[j][1] : j \in DOMAIN HeaderFields}
    [] step = "Resources" -> IF resourceDir.leaves > 0 THEN {"Resources"} ELSE {}
    [] step = "Sizes"     -> {SizeFields[j][1] : j \in DOMAIN SizeFields}
    [] step = "RSDS"      -> {"RSDS"}
    [] OTHER              -> {"Rich Header"}

\* C1: once the PE object is built, a run in which only non-cancellation
\* failures were raised ends by returning the child list, with the fields of
\* every step that did not fail added to the metadata.
C1_FieldFailureContained ==
  (/\ pc = "Done"
   /\ raised # <<>>
   /\ ~RaisedAt("Construct")
   /\ \A i \in DOMAIN raised : raised[i].exc \notin Cancellations)
  => /\ status = "returned"
     /\ \A step \in FieldSteps :
          ~RaisedAt(step) => \A key \in StepKeys(step) : Added(key)

\* C2: a cancellation raised at any step is not caught inside _run: the run
\* has ended by raising that very exception, at the step where it was raised.
C2_CancellationPropagates ==
  \A i \in DOMAIN raised :
    raised[i].exc \in Cancellations
      => /\ i = Len(raised)
         /\ pc = "Done"
         /\ status = "raised"
         /\ exc = raised[i].exc

\* C3: when the PE constructor raises PEFormatError, no metadata is added, the
\* child list stays empty, and the run ends by returning, never by raising.
C3_FormatErrorYieldsNothing ==
  (raised # <<>> /\ raised[1] = [step |-> "Construct", exc |-> "PEFormatError"])
  => /\ metadata = <<>>
     /\ moduleResult = <<>>
     /\ status # "raised"
     /\ pc \in {"Return", "Done"}
     /\ pc = "Done" => status = "returned"

C3_Witness ==
  /\ pc = "Done"
  /\ status = "returned"
  /\ raised = <<[step |-> "Construct", exc |-> "PEFormatError"]>>

\* the child object that section i of the table would yield
ChildOf(i) ==
  ModuleObject(get_data(peSections[i].PointerToRawData, peSections[i].SizeOfRawData),
               StripNul(peSections[i].Name))

SelfEqual(i) == peSections[i].MD5 = objectHash

NoSelfEqualChild ==
  \A k \in DOMAIN moduleResult :
    \A i \in DOMAIN peSections : SelfEqual(i) => moduleResult[k] # ChildOf(i)

\* C4 as stated: no child comes from a section whose MD5 is the object's hash,
\* and once 'Sections' is added every such section has its record in the map
\* (sections named 'Total', whose key holds the count, are left aside here).
C4_SelfSectionRecorded ==
  /\ NoSelfEqualChild
  /\ Added("Sections") =>
       \A i \in DOMAIN peSections :
         (SelfEqual(i) /\ StripNul(peSections[i].Name) # TotalKey) =>
           /\ StripNul(peSections[i].Name) \in DOMAIN ValueOf("Sections")
           /\ ValueOf("Sections")[StripNul(peSections[i].Name)] = SecInfo(peSections[i])

\* C4 amended: no child comes from a section whose MD5 is the object's hash;
\* once 'Sections' is added, the record of such a section is in the map under
\* its name unless a later write to that key replaced it (a later section of
\* the same stripped name, or the 'Total' count).
C4_SelfSectionNeverChild ==
  /\ NoSelfEqualChild
  /\ Added("Sections") =>
       \A i \in DOMAIN peSections :
         SelfEqual(i) =>
           /\ StripNul(peSections[i].Name) \in DOMAIN ValueOf("Sections")
           /\ \/ ValueOf("Sections")[StripNul(peSections[i].Name)] = SecInfo(peSections[i])
              \/ \E j \in (i + 1)..Len(peSections) :
                   StripNul(peSections[j].Name) = StripNul(peSections[i].Name)
              \/ StripNul(peSections[i].Name) = TotalKey

C4_Witness ==
  /\ pc = "Done"
  /\ status = "returned"
  /\ Added("Sections")
  /\ Len(peSections) = 2
  /\ SelfEqual(1)
  /\ ~SelfEqual(2)
  /\ Len(moduleResult) = 1
  /\ ValueOf("Sections")[StripNul(peSections[1].Name)] = SecInfo(peSections[1])

\* C5: the 'Image Magic' value follows the optional-header magic: 32_BIT for
\* 0x10b, 64_BIT for 0x20b, ROM_IMAGE for 0x107, Unknown for anything else.
C5_ImageMagicFromHeader ==
  Added("Image Magic") =>
    ValueOf("Image Magic") =
      (CASE optMagic = 267 -> "32_BIT"
         [] optMagic = 523 -> "64_BIT"
         [] optMagic = 263 -> "ROM_IMAGE"
         [] OTHER          -> "Unknown")

\* the symbol dicts (those with a DLL) of all import lists, in source order
RECURSIVE Flatten(_)
Flatten(lists) ==
  IF lists = <<>> THEN <<>>
  ELSE SelectSeq(Head(lists), LAMBDA d : d.DLL # None) \o Flatten(Tail(lists))

OfDll(dll) == SelectSeq(Flatten(importDump.lists), LAMBDA d : d.DLL = dll)

\* C6: 'Imports' has one key per DLL name; the list of a DLL has exactly one
\* element per symbol of that DLL, in source order: the ordinal for a symbol
\* given by ordinal, the name for a symbol given by name.
C6_ImportsGrouped ==
  Added("Imports") =>
    LET m == ValueOf("Imports")
    IN  /\ DOMAIN m = {d.DLL : d \in SeqToSet(Flatten(importDump.lists))}
        /\ \A dll \in DOMAIN m :
             /\ Len(m[dll]) = Len(OfDll(dll))
             /\ \A j \in 1..Len(m[dll]) :
                  m[dll][j] = IF OfDll(dll)[j].Ordinal # None
                              THEN OfDll(dll)[j].Ordinal
                              ELSE OfDll(dll)[j].Name

C6_Witness ==
  /\ pc = "Done"
  /\ status = "returned"
  /\ Added("Imports")
  /\ Len(importDump.lists) = 2
  /\ \E dll \in DOMAIN ValueOf("Imports") :
       /\ DOMAIN ValueOf("Imports") = {dll}
       /\ ValueOf("Imports")[dll] = <<PyStr("CreateFileA"), PyInt(7), PyInt(7)>>

\* C7 as stated: 'Exports' holds the names of the named symbols only.
C7_ExportsNamedOnly ==
  Added("Exports") =>
    /\ \A j \in DOMAIN ValueOf("Exports") : ValueOf("Exports")[j] # None
    /\ Len(ValueOf("Exports")) =
         Cardinality({j \in DOMAIN exportDir.symbols : exportDir.symbols[j].name # None})

\* C7 amended: 'Exports' holds one element per symbol of the export directory,
\* in directory order: the symbol's name, which is None for an ordinal-only
\* export.
C7_ExportsOnePerSymbol ==
  Added("Exports") =>
    /\ exportDir.present
    /\ Len(ValueOf("Exports")) = Len(exportDir.symbols)
    /\ \A j \in DOMAIN exportDir.symbols :
         ValueOf("Exports")[j] = exportDir.symbols[j].name

C7_Witness ==
  /\ pc = "Done"
  /\ status = "returned"
  /\ Added("Exports")
  /\ ValueOf("Exports") = <<None, PyStr("DllMain")>>

\* the fields of the buffer's record, read per the documented layout
RecordFields(b) ==
  [guid |-> hexlify(SubSeq(b.guid, 1, 4)) \o <<"-">> \o
            hexlify(SubSeq(b.guid, 5, 6)) \o <<"-">> \o
            hexlify(SubSeq(b.guid, 7, 8)) \o <<"-">> \o
            hexlify(SubSeq(b.guid, 9, 16)),
   age  |-> UnpackLE32(b.age),
   pdb  |-> b.path]

\* C8: for a buffer whose last 'RSDS' signature starts a record that parseRSDS
\* decodes correctly when it stands alone, the 'RSDS' value is that record's
\* guid, age and path, whatever precedes the record in the buffer.
C8_LastRecordWins ==
  (/\ Added("RSDS")
   /\ bufParts.record
   /\ bufParts.post \in {<<>>, <<0>>}
   /\ parseRSDS(RecordBytes(bufParts)) = RecordFields(bufParts))
  => ValueOf("RSDS") = RecordFields(bufParts)

\* C9 as stated: N pairs of values yield N-1 triples, the first pair dropped.
C9_RichDropsFirstPair ==
  (Added("Rich Header") /\ richHeader.present /\ Len(richHeader.values) >= 2)
  => /\ Len(ValueOf("Rich Header").RichHeaderValues) = (Len(richHeader.values) \div 2) - 1
     /\ ValueOf("Rich Header").Checksum = richHeader.checksum

\* C9 amended: N pairs of pe.RICH_HEADER.values yield N triples, one per pair
\* and the first included, each (first word >> 16, first word & 0xFFFF,
\* following word), in order, with the checksum unchanged; without a Rich
\* header the result is empty.
C9_RichOnePerPair ==
  Added("Rich Header") =>
    LET r == ValueOf("Rich Header")
        v == richHeader.values
    IN  IF richHeader.present
        THEN /\ Len(r.RichHeaderValues) * 2 = Len(v)
             /\ \A j \in 1..Len(r.RichHeaderValues) :
                  /\ r.RichHeaderValues[j].Id * 65536 + r.RichHeaderValues[j].Version
                       = v[2 * j - 1]
                  /\ r.RichHeaderValues[j].Version < 65536
                  /\ r.RichHeaderValues[j].Count = v[2 * j]
             /\ r.Checksum = richHeader.checksum
        ELSE DOMAIN r = {}

C9_Witness ==
  /\ pc = "Done"
  /\ status = "returned"
  /\ Added("Rich Header")
  /\ richHeader.present
  /\ Len(richHeader.values) = 4
  /\ ValueOf("Rich Header").RichHeaderValues =
       <<[Id |-> 258, Version |-> 4, Count |-> 7], [Id |-> 1, Version |-> 2, Count |-> 65538]>>

\* the sections that yield a child, in table order
RECURSIVE ChildrenFrom(_)
ChildrenFrom(i) ==
  IF i > Len(peSections) THEN <<>>
  ELSE (IF SelfEqual(i) THEN <<>> ELSE <<ChildOf(i)>>) \o ChildrenFrom(i + 1)

\* the last section of the table with the same stripped name as section i
LastNamed(i) ==
  CHOOSE j \in DOMAIN peSections :
    /\ StripNul(peSections[j].Name) = StripNul(peSections[i].Name)
    /\ \A k \in (j + 1)..Len(peSections) :
         StripNul(peSections[k].Name) # StripNul(peSections[i].Name)

\* C10: once the walk is over, the child list is one child per section whose
\* MD5 is not the object's hash, in table order and tagged with the section's
\* name, and the 'Sections' map holds under each section name the record of the
\* last section with that name.
C10_ChildrenAndLastWins ==
  Added("Sections") =>
    /\ moduleResult = ChildrenFrom(1)
    /\ \A i \in DOMAIN peSections :
         /\ StripNul(peSections[i].Name) \in DOMAIN ValueOf("Sections")
         /\ ValueOf("Sections")[StripNul(peSections[i].Name)]
              = SecInfo(peSections[LastNamed(i)])

====
